---- MODULE Spec2Model ----
(***************************************************************************)
(* Shape, channel, aliasing and layer-state model of networks.py: the     *)
(* attention gates, DoubleConv/OutConv/Down/Up, their attentive wrappers,  *)
(* and the networks BaseNet/IAN/ANSN/FuseNet.                              *)
(*                                                                         *)
(* A tensor is its shape (n, c, h, w), the buffer that holds its data and  *)
(* the range its values lie in.  A forward pass threads a context through  *)
(* the layers: the current tensor, the write count of every buffer, the    *)
(* ordered trace of executed layers, and the failure (if any) that         *)
(* aborted the pass.                                                       *)
(***************************************************************************)
EXTENDS Integers, Sequences, FiniteSets, TLC

\* Bounds of the model.
MaxN == 2        \* batch sizes 1..MaxN
MaxDim == 16     \* spatial sizes 1..MaxDim fed to the networks
MaxLow == 2      \* spatial sizes 1..MaxLow of the decoder input of an Up block
MaxSkip == 5     \* spatial sizes 1..MaxSkip of a skip tensor or a gated tensor
MaxCalls == 2    \* forward calls per network in a training loop
MaxSteps == 1    \* optimizer steps per network in a training loop

\* (in_channels, out_channels) pairs the networks are built with; 1 is the default.
ChannelPairs == {<<1, 1>>, <<3, 2>>}

\* (in_channels, out_channels) pairs the blocks are built with.
BlockChannels == {<<16, 8>>, <<9, 8>>}

\* Channel counts the attention gates are built with.
GateChannels == {8, 12, 64}

\* An optional keyword argument: {} when omitted, {v} when passed.
OptBool == {{}, {TRUE}, {FALSE}}
Arg(a, default) == IF a = {} THEN default ELSE CHOOSE v \in a : TRUE

VARIABLES
    net,        \* the module under test: its constructor arguments and its layers
    twin,       \* a second module built from the same arguments, to compare with
    training,   \* Module.training of the modules
    stats,      \* the buffers of net's BatchNorm2d layers
    twinStats,  \* the buffers of twin's BatchNorm2d layers
    weights,    \* the version of the learnable parameters
    calls,      \* forward calls made on net
    inp,        \* the tensors a single call is made with
    run,        \* the last forward call on net: its outcome and its trace
    twinRun     \* the last forward call on twin

vars == <<net, twin, training, stats, twinStats, weights, calls, inp, run, twinRun>>

----------------------------------------------------------------------------
(* Tensors and the forward context *)

Tensor(n, c, h, w, buf, rng) ==
    [n |-> n, c |-> c, h |-> h, w |-> w, buf |-> buf, rng |-> rng]

NoTensor == Tensor(0, 0, 0, 0, 0, "none")

\* The tensors of a caller: x in buffer 1 and, for a block with two inputs, x2
\* in buffer 2.
Input(x, x2) == [x |-> x, x2 |-> x2]

NoInput == Input(NoTensor, NoTensor)

\* The context a forward pass starts with.
Call(i, train) ==
    [st |-> "ok", at |-> <<>>, x |-> i.x,
     ver |-> IF i.x2 = NoTensor THEN <<0>> ELSE <<0, 0>>, ev |-> <<>>, train |-> train]

Fail(ctx, kind, path) == [ctx EXCEPT !.st = kind, !.at = path]

\* A layer that produced y from ctx.x (and b, when it has a second input).
Emit(ctx, op, path, b, y, arg) ==
    [ctx EXCEPT !.x = y,
                !.ver = IF y.buf > Len(ctx.ver) THEN Append(ctx.ver, 0) ELSE ctx.ver,
                !.ev = Append(ctx.ev, [op |-> op, layer |-> path, a |-> ctx.x,
                                       b |-> b, y |-> y, arg |-> arg])]

Fresh(ctx) == Len(ctx.ver) + 1

Max(a, b) == IF a >= b THEN a ELSE b

\* Range of the elementwise product of values in ranges r and s.
MulRng(r, s) ==
    IF r = "unit" /\ s = "unit" THEN "unit"
    ELSE IF r \in {"unit", "nonneg"} /\ s \in {"unit", "nonneg"} THEN "nonneg"
    ELSE "real"

\* Range that holds values of range r and values of range s.
JoinRng(r, s) ==
    IF r = s THEN r
    ELSE IF r \in {"unit", "nonneg"} /\ s \in {"unit", "nonneg"} THEN "nonneg"
    ELSE "real"

----------------------------------------------------------------------------
(* Layer constructors: what each nn.* constructor call records *)

Conv2d(in_channels, out_channels, kernel_size, padding) ==
    [cls |-> "Conv2d", in_channels |-> in_channels, out_channels |-> out_channels,
     kernel_size |-> kernel_size, padding |-> padding]

BatchNorm2d(num_features) == [cls |-> "BatchNorm2d", num_features |-> num_features]

Identity == [cls |-> "Identity"]

ReLU(inplace) == [cls |-> "ReLU", inplace |-> inplace]

LeakyReLU(inplace) == [cls |-> "LeakyReLU", inplace |-> inplace]

Sigmoid == [cls |-> "Sigmoid"]

MaxPool2d(kernel_size) == [cls |-> "MaxPool2d", kernel_size |-> kernel_size]

AdaptiveAvgPool2d(output_size) ==
    [cls |-> "AdaptiveAvgPool2d", output_size |-> output_size]

Upsample(scale_factor) == [cls |-> "Upsample", scale_factor |-> scale_factor]

ConvTranspose2d(in_channels, out_channels, kernel_size, stride) ==
    [cls |-> "ConvTranspose2d", in_channels |-> in_channels,
     out_channels |-> out_channels, kernel_size |-> kernel_size, stride |-> stride]

\* PALayer with a gate as wide as the squeezed features.
PALayer_wide(channel) ==
    [cls |-> "PALayer",
     pa |-> << Conv2d(channel, channel \div 8, 1, 0),
               ReLU(TRUE),
               Conv2d(channel \div 8, channel \div 8, 1, 0),
               Sigmoid >>]

PALayer(channel) ==
    [cls |-> "PALayer",
     pa |-> << Conv2d(channel, channel \div 8, 1, 0),
               ReLU(TRUE),
               Conv2d(channel \div 8, 1, 1, 0),
               Sigmoid >>]

CALayer(channel) ==
    [cls |-> "CALayer",
     avg_pool |-> AdaptiveAvgPool2d(1),
     ca |-> << Conv2d(channel, channel \div 8, 1, 0),
               ReLU(TRUE),
               Conv2d(channel \div 8, channel, 1, 0),
               Sigmoid >>]

\* DoubleConv with each activation before its convolution.
DoubleConv_preact(in_channels, out_channels, normArg, leakyArg) ==
    LET norm == Arg(normArg, FALSE)
        leaky == Arg(leakyArg, TRUE)
    IN  [cls |-> "DoubleConv",
         conv |-> << IF leaky THEN LeakyReLU(TRUE) ELSE ReLU(TRUE),
                     Conv2d(in_channels, out_channels, 3, 1),
                     IF norm THEN BatchNorm2d(out_channels) ELSE Identity,
                     IF leaky THEN LeakyReLU(TRUE) ELSE ReLU(TRUE),
                     Conv2d(out_channels, out_channels, 3, 1),
                     IF norm THEN BatchNorm2d(out_channels) ELSE Identity >>]

DoubleConv(in_channels, out_channels, normArg, leakyArg) ==
    LET norm == Arg(normArg, FALSE)
        leaky == Arg(leakyArg, TRUE)
    IN  [cls |-> "DoubleConv",
         conv |-> << Conv2d(in_channels, out_channels, 3, 1),
                     IF norm THEN BatchNorm2d(out_channels) ELSE Identity,
                     IF leaky THEN LeakyReLU(TRUE) ELSE ReLU(TRUE),
                     Conv2d(out_channels, out_channels, 3, 1),
                     IF norm THEN BatchNorm2d(out_channels) ELSE Identity,
                     IF leaky THEN LeakyReLU(TRUE) ELSE ReLU(TRUE) >>]

OutConv(in_channels, out_channels, actArg) ==
    LET act == Arg(actArg, TRUE)
    IN  [cls |-> "OutConv",
         conv |-> << Conv2d(in_channels, out_channels, 3, 1),
                     IF act THEN Sigmoid ELSE Identity >>]

Down(in_channels, out_channels, normArg, leakyArg) ==
    LET norm == Arg(normArg, TRUE)
        leaky == Arg(leakyArg, TRUE)
    IN  [cls |-> "Down",
         maxpool_conv |-> << MaxPool2d(2),
                             DoubleConv(in_channels, out_channels, {norm}, {leaky}) >>]

\* Up whose DoubleConv expects half the declared channels after upsampling.
Up_halved(in_channels, out_channels, bilinearArg, normArg, leakyArg) ==
    LET bilinear == Arg(bilinearArg, TRUE)
        norm == Arg(normArg, TRUE)
        leaky == Arg(leakyArg, TRUE)
    IN  IF bilinear
        THEN [cls |-> "Up",
              up |-> Upsample(2),
              conv |-> DoubleConv(in_channels \div 2, out_channels, {norm}, {leaky})]
        ELSE [cls |-> "Up",
              up |-> ConvTranspose2d(in_channels, in_channels \div 2, 2, 2),
              conv |-> DoubleConv(in_channels, out_channels, {norm}, {leaky})]

Up(in_channels, out_channels, bilinearArg, normArg, leakyArg) ==
    LET bilinear == Arg(bilinearArg, TRUE)
        norm == Arg(normArg, TRUE)
        leaky == Arg(leakyArg, TRUE)
    IN  IF bilinear
        THEN [cls |-> "Up",
              up |-> Upsample(2),
              conv |-> DoubleConv(in_channels, out_channels, {norm}, {leaky})]
        ELSE [cls |-> "Up",
              up |-> ConvTranspose2d(in_channels, in_channels \div 2, 2, 2),
              conv |-> DoubleConv(in_channels, out_channels, {norm}, {leaky})]

\* AttentiveDown that does not hand leaky on to Down.
AttentiveDown_noleaky(in_channels, out_channels, normArg, leakyArg) ==
    LET norm == Arg(normArg, FALSE)
    IN  [cls |-> "AttentiveDown",
         down |-> Down(in_channels, out_channels, {norm}, {}),
         attention |-> << CALayer(out_channels), PALayer(out_channels) >>]

AttentiveDown(in_channels, out_channels, normArg, leakyArg) ==
    LET norm == Arg(normArg, FALSE)
        leaky == Arg(leakyArg, TRUE)
    IN  [cls |-> "AttentiveDown",
         down |-> Down(in_channels, out_channels, {norm}, {leaky}),
         attention |-> << CALayer(out_channels), PALayer(out_channels) >>]

AttentiveUp(in_channels, out_channels, bilinearArg, normArg, leakyArg) ==
    LET bilinear == Arg(bilinearArg, TRUE)
        norm == Arg(normArg, FALSE)
        leaky == Arg(leakyArg, TRUE)
    IN  [cls |-> "AttentiveUp",
         up |-> Up(in_channels, out_channels, {bilinear}, {norm}, {leaky}),
         attention |-> << CALayer(out_channels), PALayer(out_channels) >>]

AttentiveDoubleConv(in_channels, out_channels, normArg, leakyArg) ==
    LET norm == Arg(normArg, FALSE)
        leaky == Arg(leakyArg, FALSE)
    IN  [cls |-> "AttentiveDoubleConv",
         conv |-> DoubleConv(in_channels, out_channels, {norm}, {leaky}),
         attention |-> << CALayer(out_channels), PALayer(out_channels) >>]

\* BaseNet whose last Down stage doubles the channels.
BaseNet_wide(in_channels, out_channels, normArg) ==
    LET norm == Arg(normArg, TRUE)
    IN  [cls |-> "BaseNet",
         n_channels |-> in_channels,
         n_classes |-> out_channels,
         inc |-> DoubleConv(in_channels, 32, {norm}, {}),
         down1 |-> Down(32, 64, {norm}, {}),
         down2 |-> Down(64, 128, {norm}, {}),
         down3 |-> Down(128, 256, {norm}, {}),
         up1 |-> Up(256, 64, {TRUE}, {norm}, {}),
         up2 |-> Up(128, 32, {TRUE}, {norm}, {}),
         up3 |-> Up(64, 32, {TRUE}, {norm}, {}),
         outc |-> OutConv(32, out_channels, {})]

BaseNet(in_channels, out_channels, normArg) ==
    LET norm == Arg(normArg, TRUE)
    IN  [cls |-> "BaseNet",
         n_channels |-> in_channels,
         n_classes |-> out_channels,
         inc |-> DoubleConv(in_channels, 32, {norm}, {}),
         down1 |-> Down(32, 64, {norm}, {}),
         down2 |-> Down(64, 128, {norm}, {}),
         down3 |-> Down(128, 128, {norm}, {}),
         up1 |-> Up(256, 64, {TRUE}, {norm}, {}),
         up2 |-> Up(128, 32, {TRUE}, {norm}, {}),
         up3 |-> Up(64, 32, {TRUE}, {norm}, {}),
         outc |-> OutConv(32, out_channels, {})]

IAN(in_channels, out_channels, normArg) ==
    LET norm == Arg(normArg, TRUE)
    IN  [BaseNet(in_channels, out_channels, {norm}) EXCEPT !.cls = "IAN"]

\* ANSN that does not hand norm on to BaseNet.
ANSN_defaultnorm(in_channels, out_channels, normArg) ==
    [BaseNet(in_channels, out_channels, {})
        EXCEPT !.cls = "ANSN", !.outc = OutConv(32, out_channels, {FALSE})]

ANSN(in_channels, out_channels, normArg) ==
    LET norm == Arg(normArg, TRUE)
    IN  [BaseNet(in_channels, out_channels, {norm})
            EXCEPT !.cls = "ANSN", !.outc = OutConv(32, out_channels, {FALSE})]

\* FuseNet whose last AttentiveDown stage doubles the channels.
FuseNet_wide(in_channels, out_channels, normArg) ==
    LET norm == Arg(normArg, FALSE)
    IN  [cls |-> "FuseNet",
         inc |-> AttentiveDoubleConv(in_channels, 32, {norm}, {FALSE}),
         down1 |-> AttentiveDown(32, 64, {norm}, {FALSE}),
         down2 |-> AttentiveDown(64, 128, {norm}, {FALSE}),
         up1 |-> AttentiveUp(128, 32, {TRUE}, {norm}, {FALSE}),
         up2 |-> AttentiveUp(64, 32, {TRUE}, {norm}, {FALSE}),
         outc |-> OutConv(32, out_channels, {})]

FuseNet(in_channels, out_channels, normArg) ==
    LET norm == Arg(normArg, FALSE)
    IN  [cls |-> "FuseNet",
         inc |-> AttentiveDoubleConv(in_channels, 32, {norm}, {FALSE}),
         down1 |-> AttentiveDown(32, 64, {norm}, {FALSE}),
         down2 |-> AttentiveDown(64, 64, {norm}, {FALSE}),
         up1 |-> AttentiveUp(128, 32, {TRUE}, {norm}, {FALSE}),
         up2 |-> AttentiveUp(64, 32, {TRUE}, {norm}, {FALSE}),
         outc |-> OutConv(32, out_channels, {})]

----------------------------------------------------------------------------
(* Forward passes of the framework layers *)

\* nn.Conv2d: the input must have the declared channel count.
Conv2d_forward(m, ctx, path) ==
    IF ctx.x.c # m.in_channels
    THEN Fail(ctx, "channels", path)
    ELSE Emit(ctx, "Conv2d", path, NoTensor,
              Tensor(ctx.x.n, m.out_channels,
                     ctx.x.h + 2 * m.padding - m.kernel_size + 1,
                     ctx.x.w + 2 * m.padding - m.kernel_size + 1,
                     Fresh(ctx), "real"),
              <<m.in_channels, m.out_channels>>)

\* nn.BatchNorm2d: in training mode it counts the batch, refuses a batch with
\* one value per channel, and otherwise updates its running statistics; in
\* evaluation mode it only reads them.
BatchNorm2d_forward(m, ctx, path) ==
    IF ctx.x.c # m.num_features
    THEN Fail(ctx, "channels", path)
    ELSE IF ctx.train /\ ctx.x.n * ctx.x.h * ctx.x.w = 1
    THEN Fail(ctx, "batchnorm", path)
    ELSE Emit(ctx, "BatchNorm2d", path, NoTensor,
              [ctx.x EXCEPT !.buf = Fresh(ctx), !.rng = "real"],
              <<m.num_features>>)

\* nn.Identity returns its argument itself.
Identity_forward(m, ctx, path) ==
    Emit(ctx, "Identity", path, NoTensor, ctx.x, <<>>)

\* An activation with inplace=True overwrites the buffer of its argument.
Activation(m, ctx, path, rng) ==
    IF m.inplace
    THEN [Emit(ctx, m.cls, path, NoTensor, [ctx.x EXCEPT !.rng = rng], <<>>)
             EXCEPT !.ver[ctx.x.buf] = @ + 1]
    ELSE Emit(ctx, m.cls, path, NoTensor,
              [ctx.x EXCEPT !.buf = Fresh(ctx), !.rng = rng], <<>>)

ReLU_forward(m, ctx, path) ==
    Activation(m, ctx, path, IF ctx.x.rng = "real" THEN "nonneg" ELSE ctx.x.rng)

LeakyReLU_forward(m, ctx, path) == Activation(m, ctx, path, ctx.x.rng)

Sigmoid_forward(m, ctx, path) ==
    Emit(ctx, "Sigmoid", path, NoTensor,
         [ctx.x EXCEPT !.buf = Fresh(ctx), !.rng = "unit"], <<>>)

\* nn.MaxPool2d(k): floor division of the spatial size; an empty output is an error.
MaxPool2d_forward(m, ctx, path) ==
    IF ctx.x.h \div m.kernel_size = 0 \/ ctx.x.w \div m.kernel_size = 0
    THEN Fail(ctx, "pool", path)
    ELSE Emit(ctx, "MaxPool2d", path, NoTensor,
              [ctx.x EXCEPT !.h = @ \div m.kernel_size, !.w = @ \div m.kernel_size,
                            !.buf = Fresh(ctx)],
              <<m.kernel_size>>)

AdaptiveAvgPool2d_forward(m, ctx, path) ==
    Emit(ctx, "AdaptiveAvgPool2d", path, NoTensor,
         [ctx.x EXCEPT !.h = m.output_size, !.w = m.output_size, !.buf = Fresh(ctx)],
         <<m.output_size>>)

Upsample_forward(m, ctx, path) ==
    Emit(ctx, "Upsample", path, NoTensor,
         [ctx.x EXCEPT !.h = @ * m.scale_factor, !.w = @ * m.scale_factor,
                       !.buf = Fresh(ctx)],
         <<m.scale_factor>>)

ConvTranspose2d_forward(m, ctx, path) ==
    IF ctx.x.c # m.in_channels
    THEN Fail(ctx, "channels", path)
    ELSE Emit(ctx, "ConvTranspose2d", path, NoTensor,
              Tensor(ctx.x.n, m.out_channels,
                     (ctx.x.h - 1) * m.stride + m.kernel_size,
                     (ctx.x.w - 1) * m.stride + m.kernel_size,
                     Fresh(ctx), "real"),
              <<m.in_channels, m.out_channels>>)

\* F.pad(x, [left, right, top, bottom]); a negative amount crops.
Pad(ctx, pad, path) ==
    LET w == ctx.x.w + pad[1] + pad[2]
        h == ctx.x.h + pad[3] + pad[4]
    IN  IF w < 0 \/ h < 0
        THEN Fail(ctx, "pad", path)
        ELSE Emit(ctx, "pad", path, NoTensor,
                  [ctx.x EXCEPT !.h = h, !.w = w, !.buf = Fresh(ctx)], pad)

\* torch.cat([a, b], dim=1): every dimension but the channels must agree.
Cat(ctx, a, b, path) ==
    IF a.n # b.n \/ a.h # b.h \/ a.w # b.w
    THEN Fail(ctx, "cat", path)
    ELSE Emit([ctx EXCEPT !.x = a], "cat", path, b,
              Tensor(a.n, a.c + b.c, a.h, a.w, Fresh(ctx), JoinRng(a.rng, b.rng)),
              <<a.c, b.c>>)

Broadcasts(p, q) == p = q \/ p = 1 \/ q = 1

\* a * b with broadcasting.
Mul(ctx, a, b, path) ==
    IF ~(Broadcasts(a.n, b.n) /\ Broadcasts(a.c, b.c)
            /\ Broadcasts(a.h, b.h) /\ Broadcasts(a.w, b.w))
    THEN Fail(ctx, "broadcast", path)
    ELSE Emit([ctx EXCEPT !.x = a], "mul", path, b,
              Tensor(Max(a.n, b.n), Max(a.c, b.c), Max(a.h, b.h), Max(a.w, b.w),
                     Fresh(ctx), MulRng(a.rng, b.rng)),
              <<>>)

----------------------------------------------------------------------------
(* Forward passes of the classes of networks.py *)

RECURSIVE Forward(_, _, _), Sequential(_, _, _, _)

\* nn.Sequential: the modules in order, each named by its index.
Sequential(mods, i, ctx, path) ==
    IF i > Len(mods) \/ ctx.st # "ok"
    THEN ctx
    ELSE Sequential(mods, i + 1, Forward(mods[i], ctx, path \o <<ToString(i - 1)>>),
                    path)

\* x * y, y being the tensor the gate pipeline ended with.
Gate(y, x, path) == IF y.st # "ok" THEN y ELSE Mul(y, x, y.x, path)

PALayer_forward(m, ctx, path) ==
    Gate(Sequential(m.pa, 1, ctx, path \o <<"pa">>), ctx.x, path)

CALayer_forward(m, ctx, path) ==
    Gate(Sequential(m.ca, 1, Forward(m.avg_pool, ctx, path \o <<"avg_pool">>),
                    path \o <<"ca">>),
         ctx.x, path)

DoubleConv_forward(m, ctx, path) == Sequential(m.conv, 1, ctx, path \o <<"conv">>)

OutConv_forward(m, ctx, path) == Sequential(m.conv, 1, ctx, path \o <<"conv">>)

Down_forward(m, ctx, path) ==
    Sequential(m.maxpool_conv, 1, ctx, path \o <<"maxpool_conv">>)

\* Up.forward padding by floor(diff/2) on both sides.
Up_pad_symmetric(u, x2, path) ==
    LET diffY == x2.h - u.x.h
        diffX == x2.w - u.x.w
    IN  IF u.st # "ok" THEN u
        ELSE Pad(u, <<diffX \div 2, diffX \div 2, diffY \div 2, diffY \div 2>>, path)

\* Up.forward without the padding.
Up_pad_none(u, x2, path) == u

\* Up.forward after self.up: u holds the upsampled x1, which is padded to the
\* size of x2.
Up_pad(u, x2, path) ==
    LET diffY == x2.h - u.x.h
        diffX == x2.w - u.x.w
    IN  IF u.st # "ok" THEN u
        ELSE Pad(u, <<diffX \div 2, diffX - diffX \div 2,
                      diffY \div 2, diffY - diffY \div 2>>, path)

\* Up.forward after F.pad: p holds the padded x1, concatenated after x2.
Up_cat(p, x2, path) == IF p.st # "ok" THEN p ELSE Cat(p, x2, p.x, path)

\* Up.forward(x1, x2), x1 being the tensor of ctx.
Up_forward(m, ctx, x2, path) ==
    Forward(m.conv,
            Up_cat(Up_pad(Forward(m.up, ctx, path \o <<"up">>), x2, path), x2, path),
            path \o <<"conv">>)

AttentiveDown_forward(m, ctx, path) ==
    Sequential(m.attention, 1, Forward(m.down, ctx, path \o <<"down">>),
               path \o <<"attention">>)

AttentiveUp_forward(m, ctx, x2, path) ==
    Sequential(m.attention, 1, Up_forward(m.up, ctx, x2, path \o <<"up">>),
               path \o <<"attention">>)

AttentiveDoubleConv_forward(m, ctx, path) ==
    Sequential(m.attention, 1, Forward(m.conv, ctx, path \o <<"conv">>),
               path \o <<"attention">>)

BaseNet_forward(m, ctx) ==
    LET x1 == Forward(m.inc, ctx, <<"inc">>)
        x2 == Forward(m.down1, x1, <<"down1">>)
        x3 == Forward(m.down2, x2, <<"down2">>)
        x4 == Forward(m.down3, x3, <<"down3">>)
        u1 == Up_forward(m.up1, x4, x3.x, <<"up1">>)
        u2 == Up_forward(m.up2, u1, x2.x, <<"up2">>)
        u3 == Up_forward(m.up3, u2, x1.x, <<"up3">>)
    IN  Forward(m.outc, u3, <<"outc">>)

FuseNet_forward(m, ctx) ==
    LET x1 == Forward(m.inc, ctx, <<"inc">>)
        x2 == Forward(m.down1, x1, <<"down1">>)
        x3 == Forward(m.down2, x2, <<"down2">>)
        u1 == AttentiveUp_forward(m.up1, x3, x2.x, <<"up1">>)
        u2 == AttentiveUp_forward(m.up2, u1, x1.x, <<"up2">>)
    IN  Forward(m.outc, u2, <<"outc">>)

\* Module.__call__: dispatch on the class of the module; a failed pass stops.
Forward(m, ctx, path) ==
    IF ctx.st # "ok" THEN ctx
    ELSE CASE m.cls = "Conv2d" -> Conv2d_forward(m, ctx, path)
           [] m.cls = "BatchNorm2d" -> BatchNorm2d_forward(m, ctx, path)
           [] m.cls = "Identity" -> Identity_forward(m, ctx, path)
           [] m.cls = "ReLU" -> ReLU_forward(m, ctx, path)
           [] m.cls = "LeakyReLU" -> LeakyReLU_forward(m, ctx, path)
           [] m.cls = "Sigmoid" -> Sigmoid_forward(m, ctx, path)
           [] m.cls = "MaxPool2d" -> MaxPool2d_forward(m, ctx, path)
           [] m.cls = "AdaptiveAvgPool2d" -> AdaptiveAvgPool2d_forward(m, ctx, path)
           [] m.cls = "Upsample" -> Upsample_forward(m, ctx, path)
           [] m.cls = "ConvTranspose2d" -> ConvTranspose2d_forward(m, ctx, path)
           [] m.cls = "PALayer" -> PALayer_forward(m, ctx, path)
           [] m.cls = "CALayer" -> CALayer_forward(m, ctx, path)
           [] m.cls = "DoubleConv" -> DoubleConv_forward(m, ctx, path)
           [] m.cls = "OutConv" -> OutConv_forward(m, ctx, path)
           [] m.cls = "Down" -> Down_forward(m, ctx, path)
           [] m.cls = "AttentiveDown" -> AttentiveDown_forward(m, ctx, path)
           [] m.cls = "AttentiveDoubleConv" -> AttentiveDoubleConv_forward(m, ctx, path)
           [] m.cls \in {"BaseNet", "IAN", "ANSN"} -> BaseNet_forward(m, ctx)
           [] m.cls = "FuseNet" -> FuseNet_forward(m, ctx)

----------------------------------------------------------------------------
(* Layer-held state: the buffers of the BatchNorm2d layers *)

RECURSIVE BNPaths(_, _)

\* The paths of the BatchNorm2d layers of module m (Module.named_modules).
BNPaths(m, path) ==
    LET seq(mods, p) == UNION {BNPaths(mods[i], p \o <<ToString(i - 1)>>) :
                                  i \in 1..Len(mods)}
    IN  CASE m.cls = "BatchNorm2d" -> {path}
          [] m.cls \in {"DoubleConv", "OutConv"} -> seq(m.conv, path \o <<"conv">>)
          [] m.cls = "Down" -> seq(m.maxpool_conv, path \o <<"maxpool_conv">>)
          [] m.cls = "Up" -> BNPaths(m.conv, path \o <<"conv">>)
          [] m.cls = "AttentiveDown" -> BNPaths(m.down, path \o <<"down">>)
          [] m.cls = "AttentiveUp" -> BNPaths(m.up, path \o <<"up">>)
          [] m.cls = "AttentiveDoubleConv" -> BNPaths(m.conv, path \o <<"conv">>)
          [] m.cls \in {"BaseNet", "IAN", "ANSN"} ->
                UNION {BNPaths(m.inc, <<"inc">>), BNPaths(m.down1, <<"down1">>),
                       BNPaths(m.down2, <<"down2">>), BNPaths(m.down3, <<"down3">>),
                       BNPaths(m.up1, <<"up1">>), BNPaths(m.up2, <<"up2">>),
                       BNPaths(m.up3, <<"up3">>), BNPaths(m.outc, <<"outc">>)}
          [] m.cls = "FuseNet" ->
                UNION {BNPaths(m.inc, <<"inc">>), BNPaths(m.down1, <<"down1">>),
                       BNPaths(m.down2, <<"down2">>), BNPaths(m.up1, <<"up1">>),
                       BNPaths(m.up2, <<"up2">>), BNPaths(m.outc, <<"outc">>)}
          [] OTHER -> {}

\* A freshly constructed BatchNorm2d: no batch tracked, initial statistics.
InitStats(m) ==
    [p \in BNPaths(m, <<>>) |-> [num_batches_tracked |-> 0, running |-> 0]]

\* BatchNorm2d updating its buffers in evaluation mode too.
StatsAfter_anymode(st, r) ==
    LET done(p) == \E i \in 1..Len(r.ev) : r.ev[i].op = "BatchNorm2d" /\ r.ev[i].layer = p
    IN  [p \in DOMAIN st |->
            [num_batches_tracked |->
                 st[p].num_batches_tracked + (IF done(p) THEN 1 ELSE 0),
             running |-> st[p].running + (IF done(p) THEN 1 ELSE 0)]]

\* The statistics after the forward pass r: in training mode every
\* BatchNorm2d the pass entered has counted one more batch, and every one it
\* completed has replaced its running mean and variance.
StatsAfter(st, r) ==
    LET done(p) == \E i \in 1..Len(r.ev) : r.ev[i].op = "BatchNorm2d" /\ r.ev[i].layer = p
        refused(p) == r.st = "batchnorm" /\ r.at = p
    IN  [p \in DOMAIN st |->
            IF ~r.train THEN st[p]
            ELSE [num_batches_tracked |->
                      st[p].num_batches_tracked + (IF done(p) \/ refused(p) THEN 1 ELSE 0),
                  running |-> st[p].running + (IF done(p) THEN 1 ELSE 0)]]

----------------------------------------------------------------------------
(* Modules under test: construction, mode switches, forward calls *)

NetKinds == {"BaseNet", "IAN", "ANSN", "FuseNet"}

NoArgs == [bilinear |-> {}, norm |-> {}, leaky |-> {}]

\* kind(in_channels, out_channels, ...) with the keyword arguments of args.
New(kind, in_channels, out_channels, args) ==
    CASE kind = "BaseNet" -> BaseNet(in_channels, out_channels, args.norm)
      [] kind = "IAN" -> IAN(in_channels, out_channels, args.norm)
      [] kind = "ANSN" -> ANSN(in_channels, out_channels, args.norm)
      [] kind = "FuseNet" -> FuseNet(in_channels, out_channels, args.norm)
      [] kind = "PALayer" -> PALayer(in_channels)
      [] kind = "CALayer" -> CALayer(in_channels)
      [] kind = "DoubleConv" ->
            DoubleConv(in_channels, out_channels, args.norm, args.leaky)
      [] kind = "Down" -> Down(in_channels, out_channels, args.norm, args.leaky)
      [] kind = "Up" ->
            Up(in_channels, out_channels, args.bilinear, args.norm, args.leaky)
      [] kind = "AttentiveDoubleConv" ->
            AttentiveDoubleConv(in_channels, out_channels, args.norm, args.leaky)
      [] kind = "AttentiveDown" ->
            AttentiveDown(in_channels, out_channels, args.norm, args.leaky)
      [] kind = "AttentiveUp" ->
            AttentiveUp(in_channels, out_channels, args.bilinear, args.norm, args.leaky)

Module(kind, in_channels, out_channels, args) ==
    [kind |-> kind, in_channels |-> in_channels, out_channels |-> out_channels,
     args |-> args, mod |-> New(kind, in_channels, out_channels, args)]

NoModule ==
    [kind |-> "none", in_channels |-> 0, out_channels |-> 0, args |-> NoArgs,
     mod |-> Identity]

\* module(x) or module(x1, x2).
Apply(m, i, train) ==
    CASE m.cls = "Up" -> Up_forward(m, Call(i, train), i.x2, <<>>)
      [] m.cls = "AttentiveUp" -> AttentiveUp_forward(m, Call(i, train), i.x2, <<>>)
      [] OTHER -> Forward(m, Call(i, train), <<>>)

NoRun == [st |-> "none", at |-> <<>>, x |-> NoTensor, ver |-> <<>>, ev |-> <<>>,
          train |-> TRUE, x0 |-> NoTensor, x2 |-> NoTensor]

\* What a forward call on input i left: the context it ended with.
Outcome(r, i) ==
    [st |-> r.st, at |-> r.at, x |-> r.x, ver |-> r.ver, ev |-> r.ev,
     train |-> r.train, x0 |-> i.x, x2 |-> i.x2]

\* The modules right after their constructors returned (training mode, fresh
\* buffers), and the tensors a caller holds.
Start(m, t, i) ==
    /\ net = m
    /\ twin = t
    /\ inp = i
    /\ training = TRUE
    /\ stats = InitStats(m.mod)
    /\ twinStats = InitStats(t.mod)
    /\ weights = 0
    /\ calls = 0
    /\ run = NoRun
    /\ twinRun = NoRun

\* net(x) / net(x1, x2) on the tensors of i.
Call_forward(i) ==
    LET r == Apply(net.mod, i, training)
    IN  /\ run' = Outcome(r, i)
        /\ stats' = StatsAfter(stats, r)
        /\ calls' = calls + 1
        /\ UNCHANGED <<net, twin, training, twinStats, weights, inp, twinRun>>

\* net and twin called on the same tensors.
Call_both(i) ==
    LET r == Apply(net.mod, i, training)
        t == Apply(twin.mod, i, training)
    IN  /\ run' = Outcome(r, i)
        /\ twinRun' = Outcome(t, i)
        /\ stats' = StatsAfter(stats, r)
        /\ twinStats' = StatsAfter(twinStats, t)
        /\ calls' = calls + 1
        /\ UNCHANGED <<net, twin, training, weights, inp>>

\* module.train() / module.eval()
SetTraining(mode) ==
    /\ training # mode
    /\ training' = mode
    /\ UNCHANGED <<net, twin, stats, twinStats, weights, calls, inp, run, twinRun>>

\* One step of the external optimizer on the parameters.
OptimizerStep ==
    /\ weights < MaxSteps
    /\ weights' = weights + 1
    /\ UNCHANGED <<net, twin, training, stats, twinStats, calls, inp, run, twinRun>>

----------------------------------------------------------------------------
(* The networks called once on a tensor of any shape, in either mode *)

Networks ==
    {Module(kind, ch[1], ch[2], [NoArgs EXCEPT !.norm = normArg]) :
        kind \in NetKinds, ch \in ChannelPairs, normArg \in OptBool}

NetInputs ==
    {Input(Tensor(n, ch[1], h, w, 1, "real"), NoTensor) :
        n \in 1..MaxN, ch \in ChannelPairs, h \in 1..MaxDim, w \in 1..MaxDim}

Init == \E m \in Networks, i \in NetInputs : Start(m, NoModule, i)

Probe == run = NoRun /\ Call_forward(inp)

Next ==
    \/ Probe
    \/ \E mode \in BOOLEAN : SetTraining(mode)

Spec == Init /\ [][Next]_vars

----------------------------------------------------------------------------
(* The networks in a training or evaluation loop on batches of one crop size *)

\* The number of Down stages of a network, each halving the spatial size.
Halvings(kind) == IF kind = "FuseNet" THEN 2 ELSE 3

InitLoop == \E m \in Networks : Start(m, NoModule, NoInput)

Batch(n) ==
    Input(Tensor(n, net.in_channels, 2 ^ Halvings(net.kind), 2 ^ Halvings(net.kind),
                 1, "real"), NoTensor)

NextLoop ==
    \/ \E n \in 1..MaxN : calls < MaxCalls /\ Call_forward(Batch(n))
    \/ \E mode \in BOOLEAN : SetTraining(mode)
    \/ OptimizerStep

SpecLoop == InitLoop /\ [][NextLoop]_vars

----------------------------------------------------------------------------
(* The Up block and the attention gates called once, standalone *)

Ups ==
    {Module("Up", ch[1], ch[2], [bilinear |-> b, norm |-> nm, leaky |-> {}]) :
        ch \in BlockChannels, b \in OptBool, nm \in OptBool}

Gates == {Module(k, c, c, NoArgs) : k \in {"PALayer", "CALayer"}, c \in GateChannels}

\* Decoder tensors x1 and skips x2 for an Up block built with cin input channels.
UpInputs(cin) ==
    {Input(Tensor(n, c1, h1, w1, 1, "real"), Tensor(n, c2, h2, w2, 2, "real")) :
        n \in 1..MaxN, c1 \in {cin, cin \div 2}, c2 \in {cin - cin \div 2, cin \div 2},
        h1 \in 1..MaxLow, w1 \in 1..MaxLow, h2 \in 1..MaxSkip, w2 \in 1..MaxSkip}

\* Single tensors for a block built with cin input channels.
BlockInputs(cin) ==
    {Input(Tensor(n, c, h, w, 1, "real"), NoTensor) :
        n \in 1..MaxN, c \in {cin, 1}, h \in 1..MaxSkip, w \in 1..MaxSkip}

InputsOf(m) ==
    IF m.kind \in {"Up", "AttentiveUp"} THEN UpInputs(m.in_channels)
    ELSE BlockInputs(m.in_channels)

InitLayers == \E m \in Ups \cup Gates : \E i \in InputsOf(m) : Start(m, NoModule, i)

SpecLayers == InitLayers /\ [][Next]_vars

----------------------------------------------------------------------------
(* Two modules built from the same arguments, called once on the same tensors *)

NetPairs ==
    {<<Module("IAN", ch[1], ch[2], [NoArgs EXCEPT !.norm = nm]),
       Module("ANSN", ch[1], ch[2], [NoArgs EXCEPT !.norm = nm])>> :
        ch \in ChannelPairs, nm \in OptBool}

BlockArgs(base) ==
    {[bilinear |-> b, norm |-> nm, leaky |-> lk] :
        b \in (IF base = "Up" THEN OptBool ELSE {{}}), nm \in OptBool, lk \in OptBool}

WrapperOf(base) ==
    CASE base = "Down" -> "AttentiveDown"
      [] base = "Up" -> "AttentiveUp"
      [] base = "DoubleConv" -> "AttentiveDoubleConv"

WrapperPairs ==
    UNION {{<<Module(WrapperOf(base), ch[1], ch[2], args),
              Module(base, ch[1], ch[2], args)>> :
               ch \in BlockChannels, args \in BlockArgs(base)} :
           base \in {"Down", "Up", "DoubleConv"}}

InitPair ==
    \/ \E p \in NetPairs, i \in NetInputs : Start(p[1], p[2], i)
    \/ \E p \in WrapperPairs : \E i \in InputsOf(p[1]) : Start(p[1], p[2], i)

ProbeBoth == run = NoRun /\ Call_both(inp)

NextPair ==
    \/ ProbeBoth
    \/ \E mode \in BOOLEAN : SetTraining(mode)

SpecPair == InitPair /\ [][NextPair]_vars

----------------------------------------------------------------------------
(* Properties of the networks *)

\* The size the Down stages of the network can halve exactly.
Divisor == 2 ^ Halvings(net.kind)

Called == run.st # "none"

\* The last call was made on a tensor with the network's in_channels.
Fed == Called /\ run.x0.c = net.in_channels

HasNorm == DOMAIN stats # {}

Divisible == run.x0.h % Divisor = 0 /\ run.x0.w % Divisor = 0

\* The last forward call returned a tensor of the input's batch and spatial
\* size with out_channels channels.
ReturnedDense ==
    /\ run.st = "ok"
    /\ run.x.n = run.x0.n /\ run.x.c = net.out_channels
    /\ run.x.h = run.x0.h /\ run.x.w = run.x0.w

\* The deepest feature map of the last call holds a single value per channel,
\* and BatchNorm2d in training mode is there to refuse it.
SingleValueBatch ==
    /\ HasNorm /\ run.train
    /\ run.x0.n * (run.x0.h \div Divisor) * (run.x0.w \div Divisor) = 1

\* C1 as stated: every forward call on an input whose H and W are positive
\* multiples of 8 (FuseNet: 4) returns a tensor of shape (N, out_channels, H, W).
C1_AsStated == Fed /\ Divisible => ReturnedDense

\* C1, amended: a forward call on an input whose H and W are positive multiples
\* of 8 (FuseNet: 4) returns a tensor of shape (N, out_channels, H, W), except
\* that a network with normalization in training mode fed N * (H/8) * (W/8) = 1
\* (FuseNet: /4) is stopped by the BatchNorm2d of its last Down stage.
C1_Shape ==
    Fed /\ Divisible =>
        IF SingleValueBatch
        THEN /\ run.st = "batchnorm"
             /\ run.at[1] = (IF net.kind = "FuseNet" THEN "down2" ELSE "down3")
        ELSE ReturnedDense

\* A network with normalization, in training mode, returned for a batch of one.
C1_Witness ==
    /\ ReturnedDense /\ Divisible /\ HasNorm /\ run.train /\ run.x0.n = 1
    /\ net.kind = "IAN"

\* C4 as stated: a forward call on an input whose H or W is not divisible by 8
\* (FuseNet: 4) fails at the concatenation of an Up stage.
C4_AsStated == Fed /\ ~Divisible => run.st = "cat"

\* C4, amended: a forward call on an input whose H or W is not divisible by 8
\* (FuseNet: 4) never fails at a concatenation: with H, W >= 8 (4) it behaves as
\* for divisible sizes and returns (N, out_channels, H, W) unless BatchNorm2d
\* refuses a single-value batch; with H or W < 8 (4) it fails at a max-pooling
\* step, or before it at a BatchNorm2d that refuses a single-value batch.
C4_NoCatFailure ==
    Fed /\ ~Divisible =>
        /\ run.st # "cat"
        /\ IF run.x0.h < Divisor \/ run.x0.w < Divisor
           THEN /\ run.st \in {"pool", "batchnorm"}
                /\ run.st = "batchnorm" => HasNorm /\ run.train /\ run.x0.n = 1
           ELSE IF SingleValueBatch THEN run.st = "batchnorm" ELSE ReturnedDense

\* A call on a size that is not divisible returned a tensor of the input's size,
\* after an Up stage padded by one.
C4_Witness ==
    /\ ReturnedDense /\ ~Divisible
    /\ \E i \in 1..Len(run.ev) : run.ev[i].op = "pad" /\ run.ev[i].arg = <<0, 1, 0, 1>>

CatEvents == {i \in 1..Len(run.ev) : run.ev[i].op = "cat"}

\* The output of an encoder stage: the tensor its last layer produced.
StageOutput(stage) ==
    LET idx == {i \in 1..Len(run.ev) : run.ev[i].layer[1] = stage}
    IN  run.ev[CHOOSE i \in idx : \A j \in idx : j <= i].y

\* C9: at every Up stage the pass reaches, the concatenation [skip, upsampled]
\* has the channel count the stage's DoubleConv declares (BaseNet 128+128,
\* 64+64, 32+32; FuseNet 64+64, 32+32), its convolution accepts it, and the
\* skips are the encoder outputs in reverse order of production.
C9_ChannelWiring ==
    \A i \in CatEvents :
        LET e == run.ev[i]
            up == e.layer[1]
            base == net.kind # "FuseNet"
        IN  /\ i < Len(run.ev)
            /\ run.ev[i + 1].op = "Conv2d"
            /\ run.ev[i + 1].arg[1] = e.a.c + e.b.c
            /\ e.y.c = e.a.c + e.b.c
            /\ e.arg = (CASE up = "up1" -> IF base THEN <<128, 128>> ELSE <<64, 64>>
                          [] up = "up2" -> IF base THEN <<64, 64>> ELSE <<32, 32>>
                          [] up = "up3" -> <<32, 32>>)
            /\ e.a = StageOutput(CASE up = "up1" -> IF base THEN "down2" ELSE "down1"
                                   [] up = "up2" -> IF base THEN "down1" ELSE "inc"
                                   [] up = "up3" -> "inc")

\* A BaseNet pass went through its three concatenations.
C9_Witness == run.st = "ok" /\ net.kind = "BaseNet" /\ Cardinality(CatEvents) = 3

InPlace(e) == e.op \in {"ReLU", "LeakyReLU"} /\ e.y.buf = e.a.buf

\* Layer e reads buffer buf and leaves its result elsewhere.
Reads(e, buf) == (e.a.buf = buf \/ e.b.buf = buf) /\ e.y.buf # buf

Block(e) == SubSeq(e.layer, 1, Len(e.layer) - 1)

\* C10: every in-place activation of a pass overwrites a tensor that the
\* convolution (or the normalization or identity after it) of its own block
\* produced just before; the caller's tensor is never written, and no tensor is
\* written after a layer has read it, so a skip is read at its concatenation as
\* it was produced.
C10_NoAliasedWrite ==
    /\ Called => run.ver[run.x0.buf] = 0
    /\ \A k \in 1..Len(run.ev) :
          InPlace(run.ev[k]) =>
              /\ k > 1
              /\ Block(run.ev[k - 1]) = Block(run.ev[k])
              /\ run.ev[k - 1].y.buf = run.ev[k].a.buf
              /\ \/ run.ev[k - 1].op \in {"Conv2d", "BatchNorm2d"}
                 \/ /\ run.ev[k - 1].op = "Identity"
                    /\ k > 2
                    /\ run.ev[k - 2].op = "Conv2d"
                    /\ Block(run.ev[k - 2]) = Block(run.ev[k])
                    /\ run.ev[k - 2].y.buf = run.ev[k].a.buf
              /\ run.ev[k].a.buf # run.x0.buf
              /\ \A i \in 1..(k - 1) : ~Reads(run.ev[i], run.ev[k].a.buf)

\* A FuseNet pass without normalization ran its in-place activations right
\* after nn.Identity and read both skips.
C10_Witness ==
    /\ run.st = "ok" /\ net.kind = "FuseNet" /\ ~HasNorm
    /\ Cardinality(CatEvents) = 2
    /\ \E k \in 2..Len(run.ev) : InPlace(run.ev[k]) /\ run.ev[k - 1].op = "Identity"

\* C2 as stated: forward calls leave every piece of layer-held state as it was.
C2_AsStated == [][calls' = calls + 1 => stats' = stats /\ weights' = weights]_vars

\* C2, amended: a forward call never changes weights and biases, and leaves the
\* normalization statistics unchanged when the network has no normalization or
\* is in evaluation mode; a network with normalization in training mode updates
\* the statistics of its BatchNorm2d layers in every forward call.
C2_ForwardState ==
    [][calls' = calls + 1 =>
          /\ weights' = weights
          /\ (~HasNorm \/ ~training) => stats' = stats
          /\ (HasNorm /\ training) => stats' # stats]_vars

\* A network with normalization went through two forward calls in evaluation
\* mode with the statistics it was constructed with.
C2_Witness ==
    /\ calls = 2 /\ HasNorm /\ ~run.train /\ run.st = "ok"
    /\ stats = InitStats(net.mod)

----------------------------------------------------------------------------
(* Properties of the Up block and the attention gates *)

UpCall == net.kind = "Up" /\ Called

\* x1 has the spatial size a Down stage leaves of x2's: (floor(H/2), floor(W/2)).
Halved == run.x0.h = run.x2.h \div 2 /\ run.x0.w = run.x2.w \div 2

Bilinear == net.mod.up.cls = "Upsample"

\* C3: Up.forward(x1, x2) with x1 of spatial size (floor(H/2), floor(W/2)) pads
\* the upsampled x1 by floor(diff/2) = 0 leading and diff trailing on each axis
\* (diff being 0 for an even and 1 for an odd size of x2), so that the
\* concatenation and the returned tensor have x2's spatial size; it never fails
\* at the padding or at the concatenation.
C3_UpAligns ==
    UpCall /\ Halved =>
        /\ run.st \in {"ok", "channels"}
        /\ \A i \in 1..Len(run.ev) :
              LET e == run.ev[i]
              IN  /\ e.op = "pad" =>
                        /\ e.a.h = 2 * run.x0.h /\ e.a.w = 2 * run.x0.w
                        /\ e.arg = <<0, run.x2.w - e.a.w, 0, run.x2.h - e.a.h>>
                        /\ e.arg[2] = run.x2.w % 2 /\ e.arg[4] = run.x2.h % 2
                        /\ e.y.h = run.x2.h /\ e.y.w = run.x2.w
                  /\ e.op = "cat" =>
                        /\ e.a = run.x2 /\ e.b = run.ev[i - 1].y
                        /\ e.y.h = run.x2.h /\ e.y.w = run.x2.w
        /\ run.st = "ok" => run.x.h = run.x2.h /\ run.x.w = run.x2.w

\* An Up block returned for a skip of odd height and even width.
C3_Witness ==
    /\ UpCall /\ Halved /\ run.st = "ok"
    /\ run.x2.h % 2 = 1 /\ run.x2.w % 2 = 0
    /\ \E i \in 1..Len(run.ev) : run.ev[i].op = "pad" /\ run.ev[i].arg = <<0, 0, 0, 1>>

\* C7 as stated: Up(Cin, Cout).forward(x1, x2) with x1 of Cin channels and x2 of
\* at least one channel and a compatible spatial size returns Cout channels.
C7_AsStated ==
    UpCall /\ Halved /\ run.x0.c = net.in_channels /\ run.x2.c >= 1 =>
        run.st = "ok" /\ run.x.c = net.out_channels

\* C7, amended: Up(Cin, Cout).forward(x1, x2) on tensors of compatible spatial
\* size returns Cout channels exactly when the concatenation has Cin channels:
\* with bilinear upsampling when x1 and x2 together have Cin channels, with the
\* transposed convolution when x1 has Cin channels and x2 has
\* Cin - floor(Cin/2); otherwise it fails with a channel mismatch.
C7_UpChannels ==
    UpCall /\ Halved =>
        LET cin == net.in_channels
            fits == IF Bilinear THEN run.x0.c + run.x2.c = cin
                    ELSE run.x0.c = cin /\ run.x2.c = cin - cin \div 2
        IN  IF fits THEN run.st = "ok" /\ run.x.c = net.out_channels
            ELSE run.st = "channels"

\* An Up block with an odd Cin and the transposed convolution returned.
C7_Witness ==
    /\ UpCall /\ Halved /\ ~Bilinear /\ net.in_channels % 2 = 1
    /\ run.st = "ok" /\ run.x.c = net.out_channels

GateCall ==
    net.kind \in {"PALayer", "CALayer"} /\ Called /\ run.x0.c = net.in_channels

SameShape(s, t) == s.n = t.n /\ s.c = t.c /\ s.h = t.h /\ s.w = t.w

\* C8: for C >= 8, PALayer(C) and CALayer(C) return the input multiplied by a
\* gate with values in [0,1]; the result has the input's shape; the gate has
\* shape (N, 1, H, W) for PALayer, computed through C -> floor(C/8) -> 1
\* channels, and (N, C, 1, 1) for CALayer, computed from the global average
\* through C -> floor(C/8) -> C channels.
C8_Gates ==
    GateCall /\ net.in_channels >= 8 =>
        LET C == net.in_channels
            pa == net.kind = "PALayer"
            last == run.ev[Len(run.ev)]
            convs == SelectSeq(run.ev, LAMBDA e : e.op = "Conv2d")
        IN  /\ run.st = "ok"
            /\ SameShape(run.x, run.x0)
            /\ last.op = "mul" /\ last.a = run.x0 /\ last.y = run.x
            /\ last.b.rng = "unit"
            /\ last.b = run.ev[Len(run.ev) - 1].y
            /\ run.ev[Len(run.ev) - 1].op = "Sigmoid"
            /\ SameShape(last.b,
                         IF pa THEN Tensor(run.x0.n, 1, run.x0.h, run.x0.w, 0, "")
                         ELSE Tensor(run.x0.n, C, 1, 1, 0, ""))
            /\ Len(convs) = 2
            /\ convs[1].arg = <<C, C \div 8>>
            /\ convs[2].arg = <<C \div 8, IF pa THEN 1 ELSE C>>
            /\ ~pa => /\ run.ev[1].op = "AdaptiveAvgPool2d"
                      /\ SameShape(run.ev[1].y, Tensor(run.x0.n, C, 1, 1, 0, ""))
                      /\ run.ev[1].a = run.x0

\* A CALayer whose channel count is no multiple of 8 gated a tensor wider than
\* one pixel.
C8_Witness ==
    /\ GateCall /\ net.kind = "CALayer" /\ net.in_channels % 8 # 0
    /\ run.st = "ok" /\ run.x0.h > 1 /\ run.x0.w > 1

----------------------------------------------------------------------------
(* Properties of modules built from the same arguments *)

NetPair == net.kind = "IAN" /\ twin.kind = "ANSN"

\* C5: IAN and ANSN built from the same arguments hold the same layers up to
\* and including the output convolution 32 -> out_channels, and a call on the
\* same tensor runs the same layers on the same tensors up to and including
\* that convolution; IAN then applies Sigmoid and ANSN Identity.
C5_SameButActivation ==
    NetPair =>
        /\ \A f \in {"inc", "down1", "down2", "down3", "up1", "up2", "up3"} :
              net.mod[f] = twin.mod[f]
        /\ net.mod.outc.conv[1] = Conv2d(32, net.out_channels, 3, 1)
        /\ twin.mod.outc.conv[1] = net.mod.outc.conv[1]
        /\ net.mod.outc.conv[2] = Sigmoid
        /\ twin.mod.outc.conv[2] = Identity
        /\ Called =>
              /\ run.st = twinRun.st /\ run.at = twinRun.at
              /\ Len(run.ev) = Len(twinRun.ev)
              /\ IF run.st # "ok" THEN run.ev = twinRun.ev
                 ELSE LET k == Len(run.ev)
                      IN  /\ SubSeq(run.ev, 1, k - 1) = SubSeq(twinRun.ev, 1, k - 1)
                          /\ run.ev[k - 1].op = "Conv2d"
                          /\ run.ev[k - 1].layer = <<"outc", "conv", "0">>
                          /\ run.ev[k - 1].arg = <<32, net.out_channels>>
                          /\ run.ev[k].op = "Sigmoid" /\ twinRun.ev[k].op = "Identity"
                          /\ run.ev[k].a = run.ev[k - 1].y
                          /\ twinRun.ev[k].a = run.ev[k - 1].y
                          /\ twinRun.x = run.ev[k - 1].y
                          /\ run.x.rng = "unit" /\ twinRun.x.rng = "real"

\* An IAN and an ANSN with normalization both returned for the same tensor.
C5_Witness ==
    /\ NetPair /\ run.st = "ok" /\ twinRun.st = "ok" /\ HasNorm
    /\ run.x.rng = "unit" /\ twinRun.x.rng = "real"

WrapperPair == net.kind \in {"AttentiveDown", "AttentiveUp", "AttentiveDoubleConv"}

\* The base operation a wrapper holds.
Inner(m) ==
    CASE m.cls = "AttentiveDown" -> m.down
      [] m.cls = "AttentiveUp" -> m.up
      [] m.cls = "AttentiveDoubleConv" -> m.conv

\* The trace of a wrapper without the wrapper's name for its base operation.
Unwrapped(ev) == [i \in 1..Len(ev) |-> [ev[i] EXCEPT !.layer = Tail(@)]]

\* The wrapper's call ran the twin's layers on the same tensors, and then, when
\* those returned, CALayer and PALayer in that order on what they returned.
BaseThenAttention ==
    LET k == Len(twinRun.ev)
        rest == SubSeq(run.ev, k + 1, Len(run.ev))
        C == net.out_channels
    IN  /\ Len(run.ev) >= k
        /\ Unwrapped(SubSeq(run.ev, 1, k)) = twinRun.ev
        /\ IF twinRun.st # "ok"
           THEN run.st = twinRun.st /\ Tail(run.at) = twinRun.at /\ rest = <<>>
           ELSE /\ run.st = "ok"
                /\ [i \in 1..Len(rest) |-> rest[i].op] =
                      <<"AdaptiveAvgPool2d", "Conv2d", "ReLU", "Conv2d", "Sigmoid", "mul",
                        "Conv2d", "ReLU", "Conv2d", "Sigmoid", "mul">>
                /\ \A i \in 1..6 : SubSeq(rest[i].layer, 1, 2) = <<"attention", "0">>
                /\ \A i \in 7..11 : SubSeq(rest[i].layer, 1, 2) = <<"attention", "1">>
                /\ rest[1].a = twinRun.x /\ rest[6].a = twinRun.x
                /\ rest[6].b = rest[5].y
                /\ rest[7].a = rest[6].y /\ rest[11].a = rest[6].y
                /\ rest[11].b = rest[10].y
                /\ rest[2].arg = <<C, C \div 8>> /\ rest[4].arg = <<C \div 8, C>>
                /\ rest[7].arg = <<C, C \div 8>> /\ rest[9].arg = <<C \div 8, 1>>
                /\ run.x = rest[11].y
                /\ SameShape(run.x, twinRun.x)

\* C6 as stated: a wrapper and its base operation built from the same
\* arguments, omitted ones included, differ only by the attention.
C6_AsStated == WrapperPair /\ Called => BaseThenAttention

\* The arguments are those for which wrapper and base operation have the same
\* defaults: norm is passed (or the base is DoubleConv, whose default is False
\* too) and leaky is passed (or the base is Down or Up, whose default is True too).
SameDefaults ==
    /\ net.args.norm # {} \/ twin.kind = "DoubleConv"
    /\ net.args.leaky # {} \/ twin.kind # "DoubleConv"

\* C6, amended: a wrapper's forward is that of the base operation followed by
\* CALayer and then PALayer, the base operation being built from the wrapper's
\* arguments with the wrapper's own defaults: an omitted norm is False (Down
\* and Up alone default to True) and an omitted leaky is False for
\* AttentiveDoubleConv (DoubleConv alone defaults to True).  With norm and leaky
\* passed, wrapper and standalone base operation differ only by the attention.
C6_WrapperDefaults ==
    WrapperPair =>
        LET filled == [net.args EXCEPT
                          !.norm = IF @ = {} THEN {FALSE} ELSE @,
                          !.leaky = IF @ = {} /\ twin.kind = "DoubleConv"
                                    THEN {FALSE} ELSE @]
        IN  /\ Inner(net.mod) = New(twin.kind, net.in_channels, net.out_channels, filled)
            /\ net.mod.attention =
                  <<CALayer(net.out_channels), PALayer(net.out_channels)>>
            /\ SameDefaults => Inner(net.mod) = twin.mod
            /\ SameDefaults /\ Called => BaseThenAttention
            /\ ~SameDefaults => Inner(net.mod) # twin.mod

\* An AttentiveUp built with norm and leaky passed and bilinear omitted returned
\* together with its Up.
C6_Witness ==
    /\ net.kind = "AttentiveUp" /\ SameDefaults /\ net.args.bilinear = {}
    /\ run.st = "ok" /\ twinRun.st = "ok" /\ Len(run.ev) = Len(twinRun.ev) + 11

====
